---- MODULE Spec2Model ----
(***************************************************************************)
(* Model of davistroy/paintmixr maintenance scripts:                       *)
(*   src/fix-syntax.py                         block-comment rewriter      *)
(*   src/scripts/compare-duplication-reports.py  duplication metrics diff  *)
(*                                                                         *)
(* Text is a sequence of one-character strings.  Offsets i, j are the      *)
(* 0-based Python offsets; Slice(s, a, b) is Python's s[a:b].              *)
(***************************************************************************)
EXTENDS Integers, Sequences, FiniteSets, TLC

VARIABLES
    pc,               \* position of the running script
    caller,           \* which entry point runs the rewriter
    content,          \* fix_file: text read from the file
    header,           \* fix_file: protected header (empty when none)
    rest,             \* argument of fix_multiline_comments
    i,                \* fix_multiline_comments: outer scan offset
    result,           \* fix_multiline_comments: output built so far
    fixed_content,    \* fix_file: text written back
    regions,          \* history: <<start, end>> of every replaced block, in order
    marks,            \* history: markers recognised by the last block scan
    unclosed,         \* history: offsets handled by the "Unclosed comment block" branch
    comment_content,  \* replace_block: match.group(1)
    replaced,         \* replace_block: return value
    baseline_report,  \* compare-duplication-reports: decoded baseline JSON
    final_report,     \* compare-duplication-reports: decoded final JSON
    baseline,         \* extract_metrics(baseline_report)
    final,            \* extract_metrics(final_report)
    verdict           \* compare_metrics: the three checks and all_pass

vars == <<pc, caller, content, header, rest, i, result, fixed_content, regions, marks,
          unclosed, comment_content, replaced, baseline_report, final_report,
          baseline, final, verdict>>

scanVars == <<caller, content, header, rest, i, result, fixed_content, regions, marks, unclosed>>
blockVars == <<comment_content, replaced>>
metricVars == <<baseline_report, final_report, baseline, final, verdict>>

----------------------------------------------------------------------------
(* Bounds *)

MaxPieces == 5
MaxLen == 5
MaxFormats == 1

----------------------------------------------------------------------------
(* Python string primitives *)

Slice(s, a, b) == SubSeq(s, a + 1, b)

At2(s, k) == Slice(s, k, k + 2)

OpenMarker == <<"/", "*">>
CloseMarker == <<"*", "/">>

\* characters str.strip()/str.lstrip() remove
WhitespaceChars == {" ", "\n", "\t", "\r", "\f"}

RECURSIVE LStrip(_)
LStrip(s) ==
    IF s # <<>> /\ Head(s) \in WhitespaceChars THEN LStrip(Tail(s)) ELSE s

RECURSIVE RStrip(_)
RStrip(s) ==
    IF s # <<>> /\ s[Len(s)] \in WhitespaceChars
    THEN RStrip(SubSeq(s, 1, Len(s) - 1)) ELSE s

Strip(s) == RStrip(LStrip(s))

\* variant: splitting the empty text gives no line at all
RECURSIVE SplitDropsEmpty(_, _)
SplitDropsEmpty(s, sep) ==
    IF s = <<>> THEN <<>>
    ELSE IF \E k \in 1..Len(s) : s[k] = sep
    THEN LET k == CHOOSE k \in 1..Len(s) : s[k] = sep /\ \A m \in 1..(k - 1) : s[m] # sep
         IN  <<SubSeq(s, 1, k - 1)>> \o SplitDropsEmpty(SubSeq(s, k + 1, Len(s)), sep)
    ELSE <<s>>

RECURSIVE Split(_, _)
Split(s, sep) ==
    IF \E k \in 1..Len(s) : s[k] = sep
    THEN LET k == CHOOSE k \in 1..Len(s) : s[k] = sep /\ \A m \in 1..(k - 1) : s[m] # sep
         IN  <<SubSeq(s, 1, k - 1)>> \o Split(SubSeq(s, k + 1, Len(s)), sep)
    ELSE <<s>>

RECURSIVE Join(_, _)
Join(lines, sep) ==
    IF lines = <<>> THEN <<>>
    ELSE IF Len(lines) = 1 THEN lines[1]
    ELSE lines[1] \o <<sep>> \o Join(Tail(lines), sep)

----------------------------------------------------------------------------
(* fix-syntax.py: replace_block *)

LinePrefix == <<"/", "/", " ">>

Banner == <<"/", "/", " ", "D", "I", "S", "A", "B", "L", "E", "D", ":", " ",
            "I", "m", "p", "l", "e", "m", "e", "n", "t", "a", "t", "i", "o", "n", " ",
            "p", "e", "n", "d", "i", "n", "g">>

\* line[:len(line) - len(line.lstrip())]
Indent(line) == Slice(line, 0, Len(line) - Len(LStrip(line)))

\* variant: the blank-line test is missing, every line gets the prefix
FixLineCommentsBlank(line) == Indent(line) \o LinePrefix \o LStrip(line)

FixLine(line) ==
    IF Strip(line) # <<>>
    THEN LET stripped == LStrip(line)
         IN  IF stripped # <<>>
             THEN Indent(line) \o LinePrefix \o stripped
             ELSE line
    ELSE line

FixedLines(lines) == [k \in 1..Len(lines) |-> FixLine(lines[k])]

\* variant: the banner is inserted without the first line's indentation
InsertBannerNoIndent(fixed_lines) ==
    IF fixed_lines # <<>> THEN <<Banner>> \o fixed_lines ELSE fixed_lines

InsertBanner(fixed_lines) ==
    IF fixed_lines # <<>>
    THEN <<Indent(fixed_lines[1]) \o Banner>> \o fixed_lines
    ELSE fixed_lines

ReplaceBlock(cc) == Join(InsertBanner(FixedLines(Split(cc, "\n"))), "\n")


----------------------------------------------------------------------------
(* fix-syntax.py: fix_multiline_comments, inner loop (lines 46-56) *)

\* variant: inner open markers are not counted, the first close marker ends the block
RECURSIVE ScanCloseNoNesting(_, _, _, _)
ScanCloseNoNesting(text, j, d, ms) ==
    IF j < Len(text) - 1 /\ d > 0
    THEN IF At2(text, j) = CloseMarker
         THEN ScanCloseNoNesting(text, j + 2, d - 1, Append(ms, <<j, "close">>))
         ELSE ScanCloseNoNesting(text, j + 1, d, ms)
    ELSE [j |-> j, depth |-> d, marks |-> ms]

\* variant: after an open marker the scan advances by one character only
RECURSIVE ScanCloseOverlap(_, _, _, _)
ScanCloseOverlap(text, j, d, ms) ==
    IF j < Len(text) - 1 /\ d > 0
    THEN IF At2(text, j) = OpenMarker
         THEN ScanCloseOverlap(text, j + 1, d + 1, Append(ms, <<j, "open">>))
         ELSE IF At2(text, j) = CloseMarker
         THEN ScanCloseOverlap(text, j + 2, d - 1, Append(ms, <<j, "close">>))
         ELSE ScanCloseOverlap(text, j + 1, d, ms)
    ELSE [j |-> j, depth |-> d, marks |-> ms]

\* Scans from offset j at nesting depth d; ms collects the markers recognised.
RECURSIVE ScanClose(_, _, _, _)
ScanClose(text, j, d, ms) ==
    IF j < Len(text) - 1 /\ d > 0
    THEN IF At2(text, j) = OpenMarker
         THEN ScanClose(text, j + 2, d + 1, Append(ms, <<j, "open">>))
         ELSE IF At2(text, j) = CloseMarker
         THEN ScanClose(text, j + 2, d - 1, Append(ms, <<j, "close">>))
         ELSE ScanClose(text, j + 1, d, ms)
    ELSE [j |-> j, depth |-> d, marks |-> ms]

\* variant: the depth counter starts at 0 instead of 1
ScanFromDepthZero(text, k) == ScanClose(text, k + 2, 0, <<<<k, "open">>>>)

\* the block scan started by an open marker at offset k
ScanFrom(text, k) == ScanClose(text, k + 2, 1, <<<<k, "open">>>>)

AtOpen(text, k) == k < Len(text) - 1 /\ At2(text, k) = OpenMarker

----------------------------------------------------------------------------
(* fix-syntax.py: fix_file, header detection (lines 83-89) *)

\* variant: a greedy pattern, the header runs to the last close marker
HeaderMatchGreedy(text) ==
    IF /\ Len(text) >= 3
       /\ Slice(text, 0, 3) = <<"/", "*", "*">>
       /\ \E k \in 3..(Len(text) - 2) : At2(text, k) = CloseMarker
    THEN LET k == CHOOSE k \in 3..(Len(text) - 2) :
                     /\ At2(text, k) = CloseMarker
                     /\ \A m \in (k + 1)..(Len(text) - 2) : At2(text, m) # CloseMarker
         IN  Slice(text, 0, k + 2)
    ELSE <<>>

\* re.match(r'^(/\*\*.*?\*/)', content, re.DOTALL): the shortest match
HeaderMatch(text) ==
    IF /\ Len(text) >= 3
       /\ Slice(text, 0, 3) = <<"/", "*", "*">>
       /\ \E k \in 3..(Len(text) - 2) : At2(text, k) = CloseMarker
    THEN LET k == CHOOSE k \in 3..(Len(text) - 2) :
                     /\ At2(text, k) = CloseMarker
                     /\ \A m \in 3..(k - 1) : At2(text, m) # CloseMarker
         IN  Slice(text, 0, k + 2)
    ELSE <<>>

----------------------------------------------------------------------------
(* Inputs *)

Pieces == {<<"/", "*">>, <<"*", "/">>, <<"/">>, <<"*">>, <<"a">>, <<"\n">>}

RECURSIVE Flatten(_)
Flatten(ps) == IF ps = <<>> THEN <<>> ELSE Head(ps) \o Flatten(Tail(ps))

ScanInputs == {Flatten(ps) : ps \in UNION {[1..n -> Pieces] : n \in 0..MaxPieces}}

BlockChars == {" ", "\t", "a", "\n", "/"}

BlockInputs == UNION {[1..n -> BlockChars] : n \in 0..MaxLen}

----------------------------------------------------------------------------
(* replace_block on its own *)

InitBlock ==
    /\ pc = "block"
    /\ comment_content \in BlockInputs
    /\ replaced = <<>>
    /\ caller = "replace_block"
    /\ content = <<>> /\ header = <<>> /\ rest = <<>> /\ i = 0 /\ result = <<>>
    /\ fixed_content = <<>> /\ regions = <<>> /\ marks = <<>> /\ unclosed = <<>>
    /\ baseline_report = <<>> /\ final_report = <<>>
    /\ baseline = <<>> /\ final = <<>> /\ verdict = <<>>

CallReplaceBlock ==
    /\ pc = "block"
    /\ replaced' = ReplaceBlock(comment_content)
    /\ pc' = "block_done"
    /\ UNCHANGED <<comment_content, scanVars, metricVars>>

NextBlock == CallReplaceBlock

SpecBlock == InitBlock /\ [][NextBlock]_vars

----------------------------------------------------------------------------
(* fix_file / fix_multiline_comments as a state machine *)

Init ==
    /\ pc = "start"
    /\ caller = "none"
    /\ content \in ScanInputs
    /\ header = <<>> /\ rest = <<>> /\ i = 0 /\ result = <<>>
    /\ fixed_content = <<>> /\ regions = <<>> /\ marks = <<>> /\ unclosed = <<>>
    /\ comment_content = <<>> /\ replaced = <<>>
    /\ baseline_report = <<>> /\ final_report = <<>>
    /\ baseline = <<>> /\ final = <<>> /\ verdict = <<>>

\* fix_file: split off the protected header, then rewrite the remainder
FixFile ==
    /\ pc = "start"
    /\ header' = HeaderMatch(content)
    /\ rest' = Slice(content, Len(header'), Len(content))
    /\ caller' = "fix_file"
    /\ pc' = "scan"
    /\ UNCHANGED <<content, i, result, fixed_content, regions, marks, unclosed,
                   blockVars, metricVars>>

\* fix_multiline_comments called on the whole text
FixDirect ==
    /\ pc = "start"
    /\ rest' = content
    /\ caller' = "fix_multiline_comments"
    /\ pc' = "scan"
    /\ UNCHANGED <<content, header, i, result, fixed_content, regions, marks, unclosed,
                   blockVars, metricVars>>

\* variant: the scan resumes on the last character of the close marker
ReplaceRegionResumesEarly ==
    /\ pc = "scan" /\ i < Len(rest)
    /\ AtOpen(rest, i)
    /\ LET s == ScanFrom(rest, i)
       IN  /\ s.depth = 0
           /\ result' = result \o ReplaceBlock(Slice(rest, i + 2, s.j - 2))
           /\ i' = s.j - 1
           /\ regions' = Append(regions, <<i, s.j>>)
           /\ marks' = s.marks
    /\ UNCHANGED <<pc, caller, content, header, rest, fixed_content, unclosed, blockVars, metricVars>>

\* lines 58-63: a complete block starts at i
ReplaceRegion ==
    /\ pc = "scan" /\ i < Len(rest)
    /\ AtOpen(rest, i)
    /\ LET s == ScanFrom(rest, i)
       IN  /\ s.depth = 0
           /\ result' = result \o ReplaceBlock(Slice(rest, i + 2, s.j - 2))
           /\ i' = s.j
           /\ regions' = Append(regions, <<i, s.j>>)
           /\ marks' = s.marks
    /\ UNCHANGED <<pc, caller, content, header, rest, fixed_content, unclosed, blockVars, metricVars>>

\* variant: the unclosed branch steps over both characters of the open marker
UnclosedSkipsStar ==
    /\ pc = "scan" /\ i < Len(rest)
    /\ AtOpen(rest, i)
    /\ LET s == ScanFrom(rest, i)
       IN  /\ s.depth # 0
           /\ marks' = s.marks
    /\ result' = Append(result, rest[i + 1])
    /\ i' = i + 2
    /\ unclosed' = Append(unclosed, i)
    /\ UNCHANGED <<pc, caller, content, header, rest, fixed_content, regions, blockVars, metricVars>>

\* lines 64-67: the block starting at i never closes
Unclosed ==
    /\ pc = "scan" /\ i < Len(rest)
    /\ AtOpen(rest, i)
    /\ LET s == ScanFrom(rest, i)
       IN  /\ s.depth # 0
           /\ marks' = s.marks
    /\ result' = Append(result, rest[i + 1])
    /\ i' = i + 1
    /\ unclosed' = Append(unclosed, i)
    /\ UNCHANGED <<pc, caller, content, header, rest, fixed_content, regions, blockVars, metricVars>>

\* lines 68-70: no open marker at i
CopyChar ==
    /\ pc = "scan" /\ i < Len(rest)
    /\ ~AtOpen(rest, i)
    /\ result' = Append(result, rest[i + 1])
    /\ i' = i + 1
    /\ UNCHANGED <<pc, caller, content, header, rest, fixed_content, regions, marks, unclosed,
                   blockVars, metricVars>>

\* line 72 and lines 87/89: return result; fixed_content = header + result
Finish ==
    /\ pc = "scan" /\ ~(i < Len(rest))
    /\ fixed_content' = header \o result
    /\ pc' = "done"
    /\ UNCHANGED <<caller, content, header, rest, i, result, regions, marks, unclosed,
                   blockVars, metricVars>>

Next == FixFile \/ FixDirect \/ ReplaceRegion \/ Unclosed \/ CopyChar \/ Finish

Spec == Init /\ [][Next]_vars

----------------------------------------------------------------------------
(* compare-duplication-reports.py *)

\* A report is the sequence of the values of report['statistics']['formats'];
\* each value is a dict (a function on the keys it holds).  A Python float is kept
\* as the exact fraction <<numerator, denominator>>, denominator > 0.

RECURSIVE Gcd(_, _)
Gcd(a, b) == IF b = 0 THEN a ELSE Gcd(b, a % b)

Abs(n) == IF n < 0 THEN -n ELSE n

\* the fraction n/d in lowest terms
Rat(n, d) == <<n \div Gcd(Abs(n), d), d \div Gcd(Abs(n), d)>>
RatLe(a, b) == a[1] * b[2] <= b[1] * a[2]
RatEq(a, b) == a[1] * b[2] = b[1] * a[2]
RatSub(a, b) == Rat(a[1] * b[2] - b[1] * a[2], a[2] * b[2])

\* dict.get(key, 0)
Get(dict, key) == IF key \in DOMAIN dict THEN dict[key] ELSE 0

\* lines 31-38: one running total of the loop over the formats
RECURSIVE SumTotals(_, _)
SumTotals(formats, key) ==
    IF formats = <<>> THEN 0
    ELSE (IF "total" \in DOMAIN Head(formats) THEN Get(Head(formats)["total"], key) ELSE 0)
             + SumTotals(Tail(formats), key)

\* lines 41-42: (dup / total * 100) if total > 0 else 0
Pct(dup, total) == IF total > 0 THEN Rat(dup * 100, total) ELSE Rat(0, 1)

ExtractMetrics(report) ==
    LET total_lines == SumTotals(report, "lines")
        total_tokens == SumTotals(report, "tokens")
        total_dup_lines == SumTotals(report, "duplicatedLines")
        total_dup_tokens == SumTotals(report, "duplicatedTokens")
        total_clones == SumTotals(report, "clones")
    IN  [total_lines |-> total_lines,
         total_tokens |-> total_tokens,
         duplicated_lines |-> total_dup_lines,
         duplicated_tokens |-> total_dup_tokens,
         total_clones |-> total_clones,
         line_duplication_pct |-> Pct(total_dup_lines, total_lines),
         token_duplication_pct |-> Pct(total_dup_tokens, total_tokens)]

target_token_pct == Rat(45, 10)
target_clones == 100
target_reduction == 40

PassFail(b) == IF b THEN "PASS" ELSE "FAIL"

\* variant: the reduction must exceed the target
ReductionPassStrict(token_reduction_pct) ==
    ~RatLe(token_reduction_pct, Rat(target_reduction, 1))

\* line 113: token_reduction_pct >= 40
ReductionPass(token_reduction_pct) ==
    RatLe(Rat(target_reduction, 1), token_reduction_pct)

\* lines 80-125
CompareMetrics(b, f) ==
    LET line_reduction == b.duplicated_lines - f.duplicated_lines
        token_reduction == b.duplicated_tokens - f.duplicated_tokens
        clone_reduction == b.total_clones - f.total_clones
        line_reduction_pct == Pct(line_reduction, b.duplicated_lines)
        token_reduction_pct == Pct(token_reduction, b.duplicated_tokens)
        clone_reduction_pct == Pct(clone_reduction, b.total_clones)
        token_pct_pass == RatLe(f.token_duplication_pct, target_token_pct)
        clones_pass == f.total_clones <= target_clones
        reduction_pass == ReductionPass(token_reduction_pct)
    IN  [line_reduction |-> line_reduction,
         token_reduction |-> token_reduction,
         clone_reduction |-> clone_reduction,
         line_reduction_pct |-> line_reduction_pct,
         token_reduction_pct |-> token_reduction_pct,
         clone_reduction_pct |-> clone_reduction_pct,
         line_pct_change |-> RatSub(b.line_duplication_pct, f.line_duplication_pct),
         token_pct_change |-> RatSub(b.token_duplication_pct, f.token_duplication_pct),
         token_pct_check |-> PassFail(token_pct_pass),
         clones_check |-> PassFail(clones_pass),
         reduction_check |-> PassFail(reduction_pass),
         all_met |-> (token_pct_pass /\ clones_pass /\ reduction_pass)]

Total(l, t, dl, dt, c) ==
    [total |-> [lines |-> l, tokens |-> t, duplicatedLines |-> dl,
                duplicatedTokens |-> dt, clones |-> c]]

FormatChoices ==
    { [sources |-> <<>>],
      [total |-> [tokens |-> 200]],
      [total |-> [duplicatedTokens |-> 9, clones |-> 1]],
      Total(0, 0, 0, 0, 0),
      Total(1000, 10000, 100, 1000, 120),
      Total(1000, 10000, 40, 400, 100),
      Total(1000, 10000, 45, 450, 101),
      Total(1000, 10000, 46, 451, 50),
      Total(1000, 10000, 75, 750, 99),
      Total(100, 200, 9, 9, 1) }

Reports == UNION {[1..n -> FormatChoices] : n \in 0..MaxFormats}

InitMetrics ==
    /\ pc = "loaded"
    /\ caller = "main"
    /\ baseline_report \in Reports
    /\ final_report \in Reports
    /\ baseline = <<>> /\ final = <<>> /\ verdict = <<>>
    /\ content = <<>> /\ header = <<>> /\ rest = <<>> /\ i = 0 /\ result = <<>>
    /\ fixed_content = <<>> /\ regions = <<>> /\ marks = <<>> /\ unclosed = <<>>
    /\ comment_content = <<>> /\ replaced = <<>>

\* line 152
ExtractBaseline ==
    /\ pc = "loaded"
    /\ baseline' = ExtractMetrics(baseline_report)
    /\ pc' = "baseline_extracted"
    /\ UNCHANGED <<baseline_report, final_report, final, verdict, scanVars, blockVars>>

\* line 153
ExtractFinal ==
    /\ pc = "baseline_extracted"
    /\ final' = ExtractMetrics(final_report)
    /\ pc' = "extracted"
    /\ UNCHANGED <<baseline_report, final_report, baseline, verdict, scanVars, blockVars>>

\* line 156
Compare ==
    /\ pc = "extracted"
    /\ verdict' = CompareMetrics(baseline, final)
    /\ pc' = "compared"
    /\ UNCHANGED <<baseline_report, final_report, baseline, final, scanVars, blockVars>>

NextMetrics == ExtractBaseline \/ ExtractFinal \/ Compare

SpecMetrics == InitMetrics /\ [][NextMetrics]_vars

----------------------------------------------------------------------------
(* Vocabulary of the properties *)

IsPrefix(p, s) == Len(p) <= Len(s) /\ SubSeq(s, 1, Len(p)) = p

IsSuffix(p, s) == Len(p) <= Len(s) /\ SubSeq(s, Len(s) - Len(p) + 1, Len(s)) = p

HasMarker(text, marker) == \E k \in 0..(Len(text) - 2) : At2(text, k) = marker

IsBlank(line) == \A k \in 1..Len(line) : line[k] \in WhitespaceChars

\* number of leading whitespace characters of a line
LeadWs(line) ==
    CHOOSE m \in 0..Len(line) :
        /\ \A k \in 1..m : line[k] \in WhitespaceChars
        /\ m = Len(line) \/ line[m + 1] \notin WhitespaceChars

\* a non-blank line turned into a line comment
Commented(line) ==
    SubSeq(line, 1, LeadWs(line)) \o <<"/", "/", " ">> \o SubSeq(line, LeadWs(line) + 1, Len(line))

LineBreaks(text) == Cardinality({k \in 1..Len(text) : text[k] = "\n"})

\* every output line after the banner is the interior line, commented unless blank
LinewiseImage(inL, outL) ==
    /\ Len(outL) = Len(inL) + 1
    /\ \A k \in 1..Len(inL) :
          outL[k + 1] = IF IsBlank(inL[k]) THEN inL[k] ELSE Commented(inL[k])

NonBlankLines(inL) == {k \in 1..Len(inL) : ~IsBlank(inL[k])}

FirstNonBlank(inL) ==
    CHOOSE k \in NonBlankLines(inL) : \A m \in NonBlankLines(inL) : k <= m

----------------------------------------------------------------------------
(* replace_block: claims C5, C6 (checked under SpecBlock) *)

\* C6: an interior of n lines gives n+1 output lines (banner first, then one per
\* interior line, in order); a blank line is kept unchanged and any other line
\* becomes its leading whitespace, "// ", and the rest of the line.
C6_LinewiseReformat ==
    pc = "block_done" =>
        LET inL == Split(comment_content, "\n")
            outL == Split(replaced, "\n")
        IN  /\ Len(inL) = LineBreaks(comment_content) + 1
            /\ Len(outL) = LineBreaks(replaced) + 1
            /\ IsSuffix(Banner, outL[1])
            /\ LinewiseImage(inL, outL)

C6_Witness ==
    /\ pc = "block_done"
    /\ LET inL == Split(comment_content, "\n")
       IN  /\ Len(inL) >= 3
           /\ \E k \in 1..Len(inL) : inL[k] = <<>>
           /\ \E k \in 1..Len(inL) : ~IsBlank(inL[k]) /\ LeadWs(inL[k]) > 0

\* C5 as stated: the banner sits immediately before the first non-blank interior
\* line and carries that line's indentation, whatever precedes that line.
C5_BannerBeforeFirstContentLine ==
    (pc = "block_done" /\ NonBlankLines(Split(comment_content, "\n")) # {}) =>
        LET inL == Split(comment_content, "\n")
            outL == Split(replaced, "\n")
            f == FirstNonBlank(inL)
        IN  /\ outL[f] = SubSeq(inL[f], 1, LeadWs(inL[f])) \o Banner
            /\ outL[f + 1] = Commented(inL[f])

\* C5 amended: the banner is always the first line of the replacement and carries
\* the leading whitespace of the interior's first line (all of it when that line is
\* whitespace-only); it directly precedes the first non-blank line, at that line's
\* indentation, when that line is the first line of the interior.
C5_BannerIsFirstLine ==
    pc = "block_done" =>
        LET inL == Split(comment_content, "\n")
            outL == Split(replaced, "\n")
        IN  /\ outL[1] = SubSeq(inL[1], 1, LeadWs(inL[1])) \o Banner
            /\ Len(outL) = Len(inL) + 1
            /\ ~IsBlank(inL[1]) => outL[2] = Commented(inL[1])
            /\ \A k \in 2..Len(outL) : ~IsSuffix(Banner, outL[k])

C5_Witness ==
    /\ pc = "block_done"
    /\ comment_content = <<"\n", " ", " ", "a">>
    /\ replaced = Banner \o <<"\n", "\n", " ", " ", "/", "/", " ", "a">>

----------------------------------------------------------------------------
(* fix_multiline_comments / fix_file: claims C1-C4, C7, C8, C10 (checked under Spec) *)

Scanning == pc \in {"scan", "done"}

\* the state right after a block was replaced
JustReplaced ==
    /\ pc = "scan"
    /\ regions # <<>>
    /\ i = regions[Len(regions)][2]

LastRegion == regions[Len(regions)]

Interior(r) == Slice(rest, r[1] + 2, r[2] - 2)

\* ms is the greedy left-to-right tokenisation of rest[from .. upto): every mark is
\* an exact two-character match, marks share no character, and no marker that starts
\* on a character left over between marks is skipped.
GreedyMarks(ms, upto) ==
    /\ \A k \in 1..Len(ms) :
          At2(rest, ms[k][1]) = (IF ms[k][2] = "open" THEN OpenMarker ELSE CloseMarker)
    /\ \A k \in 1..(Len(ms) - 1) : ms[k][1] + 2 <= ms[k + 1][1]
    /\ \A q \in (ms[1][1])..(upto - 2) :
          (\A k \in 1..Len(ms) : q # ms[k][1] /\ q # ms[k][1] + 1)
              => At2(rest, q) \notin {OpenMarker, CloseMarker}

\* nesting depth after the first k marks
DepthAfter(ms, k) ==
    Cardinality({m \in 1..k : ms[m][2] = "open"}) - Cardinality({m \in 1..k : ms[m][2] = "close"})

\* C1 as stated: whenever some open marker of the buffer is unterminated, the text
\* from it to the end of the buffer is a suffix of the output.
C1_UnterminatedTextVerbatim ==
    (pc = "done" /\ header = <<>>) =>
        \A q \in 0..(Len(rest) - 2) :
            (AtOpen(rest, q) /\ ScanFrom(rest, q).depth > 0)
                => IsSuffix(Slice(rest, q, Len(rest)), result)

\* C1 amended: when the scan itself meets an unterminated open marker (it takes the
\* unclosed branch there) and no complete block starts after it, the text from that
\* marker to the end of the buffer is a suffix of the output.
C1_UnterminatedTailVerbatim ==
    (pc = "done" /\ header = <<>>) =>
        \A k \in 1..Len(unclosed) :
            (\A r \in 1..Len(regions) : regions[r][1] < unclosed[k])
                => /\ AtOpen(rest, unclosed[k])
                   /\ IsSuffix(Slice(rest, unclosed[k], Len(rest)), result)

C1_Witness ==
    /\ pc = "done" /\ header = <<>>
    /\ regions # <<>>
    /\ \E k \in 1..Len(unclosed) :
          /\ \A r \in 1..Len(regions) : regions[r][1] < unclosed[k]
          /\ unclosed[k] + 2 < Len(rest)

\* C2: a block with nested pairs is one region: the markers the scan recognised are
\* exactly the markers of the span, depth stays positive until the last of them and
\* is zero there, the region ends at that close marker, and every interior line
\* (inner markers included) is emitted line by line behind one banner.
C2_BalancedNesting ==
    JustReplaced =>
        LET r == LastRegion
            n == Len(marks)
            inL == Split(Interior(r), "\n")
            repLen == Len(Interior(r)) + LeadWs(inL[1]) + Len(Banner) + 1
                          + 3 * Cardinality(NonBlankLines(inL))
            rep == SubSeq(result, Len(result) - repLen + 1, Len(result))
        IN  /\ GreedyMarks(marks, r[2])
            /\ marks[1] = <<r[1], "open">>
            /\ marks[n] = <<r[2] - 2, "close">>
            /\ \A k \in 1..(n - 1) : DepthAfter(marks, k) > 0
            /\ DepthAfter(marks, n) = 0
            /\ \A k \in 1..(Len(regions) - 1) : regions[k][2] <= r[1]
            /\ repLen <= Len(result)
            /\ LinewiseImage(inL, Split(rep, "\n"))
            /\ Split(rep, "\n")[1] = SubSeq(inL[1], 1, LeadWs(inL[1])) \o Banner

C2_Witness ==
    /\ JustReplaced
    /\ Len(marks) >= 4
    /\ HasMarker(Interior(LastRegion), OpenMarker)
    /\ \E k \in 1..Len(Interior(LastRegion)) : Interior(LastRegion)[k] = "a"

\* the header the claim describes: the buffer starts with "/**" and has a close
\* marker at an offset >= 3; it ends with the first such close marker
HeaderEnds(text) ==
    {e \in 5..Len(text) : /\ Slice(text, 0, 3) = <<"/", "*", "*">>
                          /\ At2(text, e - 2) = CloseMarker}

HeaderEnd(text) == CHOOSE e \in HeaderEnds(text) : \A x \in HeaderEnds(text) : e <= x

\* C3: fix_file keeps the prefix through the first close marker after "/**" as the
\* header, scans only what follows it, and emits the header unchanged in front; with
\* no such close marker it scans the whole buffer.
C3_HeaderPreserved ==
    (caller = "fix_file" /\ Scanning) =>
        IF HeaderEnds(content) # {}
        THEN /\ header = Slice(content, 0, HeaderEnd(content))
             /\ rest = Slice(content, HeaderEnd(content), Len(content))
             /\ \A k \in 1..Len(regions) : regions[k][2] <= Len(rest)
             /\ pc = "done" => /\ IsPrefix(Slice(content, 0, HeaderEnd(content)), fixed_content)
                               /\ fixed_content = header \o result
        ELSE /\ header = <<>>
             /\ rest = content
             /\ pc = "done" => fixed_content = result

C3_Witness ==
    /\ caller = "fix_file" /\ pc = "done"
    /\ HasMarker(Slice(header, 3, Len(header)), OpenMarker)
    /\ rest # <<>>
    /\ fixed_content = content

\* C4: a buffer with no open marker, or with no close marker, is returned unchanged.
C4_IdentityWithoutRegion ==
    pc = "done" =>
        /\ (~HasMarker(rest, OpenMarker) \/ ~HasMarker(rest, CloseMarker))
               => result = rest /\ regions = <<>>
        /\ (~HasMarker(content, OpenMarker) \/ ~HasMarker(content, CloseMarker))
               => fixed_content = content

C4_Witness ==
    /\ pc = "done"
    /\ HasMarker(rest, OpenMarker) /\ ~HasMarker(rest, CloseMarker)
    /\ Len(rest) >= 4
    /\ result = rest

\* C7 as stated: the empty block is replaced by the banner alone, with no line
\* break after it.
C7_EmptyRegionBannerOnly ==
    (JustReplaced /\ LastRegion[2] = LastRegion[1] + 4) => IsSuffix(Banner, result)

\* C7 amended: the empty block is replaced by the banner followed by one line break
\* (the banner line and the empty interior line).
C7_EmptyRegionBannerAndBreak ==
    /\ (JustReplaced /\ LastRegion[2] = LastRegion[1] + 4)
           => IsSuffix(Banner \o <<"\n">>, result)
    /\ (pc = "done" /\ Len(regions) = 1 /\ regions[1][2] = regions[1][1] + 4)
           => result = Slice(rest, 0, regions[1][1]) \o Banner \o <<"\n">>
                           \o Slice(rest, regions[1][2], Len(rest))

C7_Witness ==
    /\ pc = "done"
    /\ rest = <<"/", "*", "*", "/">>
    /\ result = Banner \o <<"\n">>

\* text between the regions copied, each region replaced, up to offset upto
RECURSIVE Assemble(_, _, _)
Assemble(rs, from, upto) ==
    IF rs = <<>> THEN Slice(rest, from, upto)
    ELSE Slice(rest, from, Head(rs)[1])
             \o Join([k \in 1..(LineBreaks(Interior(Head(rs))) + 2) |->
                        IF k = 1
                        THEN SubSeq(Split(Interior(Head(rs)), "\n")[1], 1,
                                    LeadWs(Split(Interior(Head(rs)), "\n")[1])) \o Banner
                        ELSE IF IsBlank(Split(Interior(Head(rs)), "\n")[k - 1])
                        THEN Split(Interior(Head(rs)), "\n")[k - 1]
                        ELSE Commented(Split(Interior(Head(rs)), "\n")[k - 1])], "\n")
             \o Assemble(Tail(rs), Head(rs)[2], upto)

\* C8: the replaced regions are disjoint and in increasing order, each runs from an
\* open marker through a close marker, the scan is never behind the end of the last
\* region, and the output is the text between the regions, verbatim and in order,
\* interleaved with the regions' replacements.
C8_OutsideRegionsVerbatim ==
    Scanning =>
        /\ \A k \in 1..Len(regions) :
              /\ 0 <= regions[k][1] /\ regions[k][1] + 4 <= regions[k][2]
              /\ regions[k][2] <= Len(rest)
              /\ At2(rest, regions[k][1]) = OpenMarker
              /\ At2(rest, regions[k][2] - 2) = CloseMarker
        /\ \A k \in 1..(Len(regions) - 1) : regions[k][2] <= regions[k + 1][1]
        /\ regions # <<>> => LastRegion[2] <= i
        /\ i <= Len(rest)
        /\ result = Assemble(regions, 0, i)
        /\ pc = "done" => i = Len(rest)

C8_Witness ==
    /\ pc = "done"
    /\ Len(regions) = 2
    /\ regions[1][2] < regions[2][1]
    /\ result = Banner \o <<"\n">> \o Slice(rest, regions[1][2], regions[2][1])
                     \o Banner \o <<"\n">>

\* C10: in every block scan the recognised markers are the greedy tokenisation of
\* the scanned text: a character belongs to at most one marker, so the "*" of an
\* open marker never starts a close marker and the "/" of a close marker never
\* starts an open marker; a block is at least "/**/", and "/*/" is no block.
C10_GreedyMarkers ==
    /\ (Scanning /\ marks # <<>>) =>
           GreedyMarks(marks, IF DepthAfter(marks, Len(marks)) = 0
                              THEN marks[Len(marks)][1] + 2 ELSE Len(rest))
    /\ Scanning => \A k \in 1..Len(regions) : regions[k][1] + 4 <= regions[k][2]
    /\ (pc = "done" /\ rest = <<"/", "*", "/">>) => regions = <<>> /\ result = rest

C10_Witness ==
    /\ JustReplaced
    /\ \E k \in 1..Len(marks) :
          /\ marks[k][2] = "open"
          /\ marks[k][1] + 3 <= Len(rest)
          /\ Slice(rest, marks[k][1] + 1, marks[k][1] + 3) = CloseMarker
    /\ \E k \in 1..(Len(marks) - 1) :
          /\ marks[k][2] = "close"
          /\ marks[k][1] + 3 <= Len(rest)
          /\ Slice(rest, marks[k][1] + 1, marks[k][1] + 3) = OpenMarker

----------------------------------------------------------------------------
(* compare-duplication-reports.py: claim C9 (checked under SpecMetrics) *)

\* the sum of one field over the formats that hold a "total"
FieldSum(report, key) ==
    LET held == {k \in 1..Len(report) :
                    "total" \in DOMAIN report[k] /\ key \in DOMAIN report[k]["total"]}
        RECURSIVE Add(_)
        Add(S) == IF S = {} THEN 0
                  ELSE LET k == CHOOSE k \in S : TRUE
                       IN  report[k]["total"][key] + Add(S \ {k})
    IN  Add(held)

\* C9: each pct is duplicated/total x 100, or 0 when total is 0; the reduction is
\* (baseline - final)/baseline duplicated tokens x 100, or 0 when the baseline has
\* none; the checks print PASS exactly when final token pct <= 4.5, final clones
\* <= 100 and reduction >= 40; all criteria are met exactly when the three pass;
\* 1000/10000 against 400/10000 gives 10, 4, a reduction of 60 and PASS.
C9_SuccessCriteria ==
    pc = "compared" =>
        LET bd == FieldSum(baseline_report, "duplicatedTokens")
            bt == FieldSum(baseline_report, "tokens")
            fd == FieldSum(final_report, "duplicatedTokens")
            ft == FieldSum(final_report, "tokens")
            fc == FieldSum(final_report, "clones")
            pctOk == ft > 0 => fd * 1000 <= 45 * ft
            clonesOk == fc <= 100
            redOk == bd > 0 /\ (bd - fd) * 100 >= 40 * bd
        IN  /\ baseline.token_duplication_pct[2] > 0
            /\ final.token_duplication_pct[2] > 0
            /\ verdict.token_reduction_pct[2] > 0
            /\ IF bt > 0
               THEN baseline.token_duplication_pct[1] * bt
                        = bd * 100 * baseline.token_duplication_pct[2]
               ELSE baseline.token_duplication_pct[1] = 0
            /\ IF ft > 0
               THEN final.token_duplication_pct[1] * ft
                        = fd * 100 * final.token_duplication_pct[2]
               ELSE final.token_duplication_pct[1] = 0
            /\ IF bd > 0
               THEN verdict.token_reduction_pct[1] * bd
                        = (bd - fd) * 100 * verdict.token_reduction_pct[2]
               ELSE verdict.token_reduction_pct[1] = 0
            /\ verdict.token_pct_check = (IF pctOk THEN "PASS" ELSE "FAIL")
            /\ verdict.clones_check = (IF clonesOk THEN "PASS" ELSE "FAIL")
            /\ verdict.reduction_check = (IF redOk THEN "PASS" ELSE "FAIL")
            /\ verdict.all_met = (pctOk /\ clonesOk /\ redOk)
            /\ (bd = 1000 /\ bt = 10000 /\ fd = 400 /\ ft = 10000) =>
                   /\ RatEq(baseline.token_duplication_pct, <<10, 1>>)
                   /\ RatEq(final.token_duplication_pct, <<4, 1>>)
                   /\ RatEq(verdict.token_reduction_pct, <<60, 1>>)
                   /\ verdict.reduction_check = "PASS"

C9_Witness ==
    /\ pc = "compared"
    /\ baseline.duplicated_tokens = 1000 /\ baseline.total_tokens = 10000
    /\ final.duplicated_tokens = 400 /\ final.total_tokens = 10000
    /\ verdict.reduction_check = "PASS"
    /\ verdict.all_met

====
